---- MODULE Spec2Model ----
(***************************************************************************)
(* rithmschool/express-dbs: one two-route web application (student list,   *)
(* student detail) written three times, over the pg driver, over knex and  *)
(* over Sequelize.  A behaviour is one run of one of the three server      *)
(* processes against one content of the students/assignments tables.       *)
(* Every handler is an async function: it runs from one await to the next  *)
(* in one step, and is suspended in between.                               *)
(***************************************************************************)
EXTENDS Integers, Sequences, FiniteSets, TLC

VARIABLES variant, students, assignments, pc, path, student, rendered,
          error, issued, queryQueue

vars == <<variant, students, assignments, pc, path, student, rendered,
          error, issued, queryQueue>>

(* ------------------------------ bounds -------------------------------- *)

\* number of HTTP requests of one behaviour (numbered in order of arrival)
MaxReqs == 2

\* number of HTTP requests of a behaviour that repeats a request with
\* another request in between
MaxRepeat == 3

\* the requests of the behaviour
Reqs == DOMAIN pc

(* ------------------------- the database (SQL) -------------------------- *)

\* largest value of PostgreSQL's integer type (students.id, student_id)
Int4Max == 2147483647

\* INSERT INTO students
SeedStudents ==
    << [id |-> 1, fname |-> "Sylvia", lname |-> "Plath"],
       [id |-> 2, fname |-> "Anne", lname |-> "Sexton"] >>

\* INSERT INTO assignments
SeedAssignments ==
    << [id |-> 1, student_id |-> 1, title |-> "Essay #1", grade |-> 85],
       [id |-> 2, student_id |-> 1, title |-> "Poem #1", grade |-> 90],
       [id |-> 3, student_id |-> 2, title |-> "Short Story", grade |-> 80],
       [id |-> 4, student_id |-> 2, title |-> "Long Poem", grade |-> 87] >>

\* the rows of a table that satisfy a WHERE condition, in table order
RECURSIVE Where(_, _, _)
Where(table, column, value) ==
    IF table = <<>> THEN <<>>
    ELSE IF Head(table)[column] = value
         THEN <<Head(table)>> \o Where(Tail(table), column, value)
         ELSE Where(Tail(table), column, value)

\* the rows of a table whose column has one of the given values
RECURSIVE Keep(_, _, _)
Keep(table, column, values) ==
    IF table = <<>> THEN <<>>
    ELSE IF Head(table)[column] \in values
         THEN <<Head(table)>> \o Keep(Tail(table), column, values)
         ELSE Keep(Tail(table), column, values)

\* the ids of the students of a table
StudentIds(table) == { table[i].id : i \in DOMAIN table }

\* assignments.student_id REFERENCES students
ForeignKeyOk(studs, assigns) ==
    \A i \in DOMAIN assigns : assigns[i].student_id \in StudentIds(studs)

\* table contents without the foreign key: assignments may outlive students
StoreContentsUnreferenced ==
    { [students |-> Keep(SeedStudents, "id", S),
       assignments |-> Keep(SeedAssignments, "student_id", T)] :
        <<S, T>> \in (SUBSET {1, 2}) \X (SUBSET {1, 2}) }

\* the table contents a run may start from: the seed rows, less any students
\* and less the assignments of any students (never leaving an orphan)
StoreContents ==
    { [students |-> Keep(SeedStudents, "id", S),
       assignments |-> Keep(SeedAssignments, "student_id", T)] :
        <<S, T>> \in { st \in (SUBSET {1, 2}) \X (SUBSET {1, 2}) :
                         st[2] \subseteq st[1] } }

(* ------------------- the :id path parameter as text -------------------- *)

Digits == <<"0", "1", "2", "3", "4", "5", "6", "7", "8", "9">>

IsDigit(c) == \E i \in DOMAIN Digits : Digits[i] = c

DigitValue(c) == (CHOOSE i \in DOMAIN Digits : Digits[i] = c) - 1

\* the characters PostgreSQL's integer input skips (C isspace): blank, tab,
\* newline, vertical tab, form feed, carriage return
IsSpace(c) == c \in {" ", "\t", "\n", "", "\f", "\r"}

\* the ids requested: /student/1, /student/%20%092%0A, /student/999,
\* /student/1%20OR%201=1, /student/2;, /student/9999999999
IdTexts ==
    { <<"1">>, <<" ", "\t", "2", "\n">>, <<"9", "9", "9">>,
      <<"1", " ", "O", "R", " ", "1", "=", "1">>,
      <<"2", ";">>,
      <<"9", "9", "9", "9", "9", "9", "9", "9", "9", "9">> }

RECURSIVE SkipSpaces(_)
SkipSpaces(text) ==
    IF text # <<>> /\ IsSpace(Head(text)) THEN SkipSpaces(Tail(text)) ELSE text

\* the digits of an integer literal, accumulated as a negative number so
\* that the smallest integer is reachable; overflow is reported, not wrapped
RECURSIVE ReadDigits(_, _, _)
ReadDigits(text, acc, seen) ==
    IF text # <<>> /\ IsDigit(Head(text))
    THEN LET d == DigitValue(Head(text)) IN
         IF acc < -(Int4Max \div 10) \/ (acc = -(Int4Max \div 10) /\ d > 8)
         THEN [ok |-> FALSE, val |-> 0, rest |-> text]
         ELSE ReadDigits(Tail(text), acc * 10 - d, TRUE)
    ELSE [ok |-> seen, val |-> acc, rest |-> text]

\* a lenient reading (as JavaScript's parseInt): the leading integer of the
\* text, whatever follows it
ParseIntLenient(text) ==
    LET t1 == SkipSpaces(text)
        neg == t1 # <<>> /\ Head(t1) = "-"
        t2 == IF t1 # <<>> /\ Head(t1) \in {"-", "+"} THEN Tail(t1) ELSE t1
        num == ReadDigits(t2, 0, FALSE)
    IN  IF ~num.ok THEN [ok |-> FALSE, val |-> 0]
        ELSE [ok |-> TRUE, val |-> IF neg THEN num.val ELSE -num.val]

\* PostgreSQL's reading of a text value bound to an integer column: white
\* space, an optional sign, at least one decimal digit, white space, and
\* nothing else; a value outside the integer type is an error.  (The
\* hexadecimal, octal, binary and underscore forms that PostgreSQL 16 added
\* are not read; no requested id has one.)
ParseInt4(text) ==
    LET t1 == SkipSpaces(text)
        neg == t1 # <<>> /\ Head(t1) = "-"
        t2 == IF t1 # <<>> /\ Head(t1) \in {"-", "+"} THEN Tail(t1) ELSE t1
        num == ReadDigits(t2, 0, FALSE)
    IN  IF ~num.ok \/ SkipSpaces(num.rest) # <<>>
        THEN [ok |-> FALSE, val |-> 0]
        ELSE IF neg THEN [ok |-> TRUE, val |-> num.val]
        ELSE IF num.val = -Int4Max - 1 THEN [ok |-> FALSE, val |-> 0]
        ELSE [ok |-> TRUE, val |-> -num.val]

(* --------------------------- query results ----------------------------- *)

\* a store call that completed: its rows, or the store's rejection
Rows(rows) == [err |-> "none", rows |-> rows]
QueryError == [err |-> "QueryError", rows |-> <<>>]

\* the columns of a SELECT list
RECURSIVE Project(_, _)
Project(rows, columns) ==
    IF rows = <<>> THEN <<>>
    ELSE <<[c \in columns |-> Head(rows)[c]]>> \o Project(Tail(rows), columns)

\* rows[0] of an empty result, and the result of first() on no row
Undefined == [undefined |-> TRUE]
\* findById on no row
Null == [null |-> TRUE]

Present(s) == s # Undefined /\ s # Null

\* LIMIT 1
Limit1(rows) == IF rows = <<>> THEN <<>> ELSE <<rows[1]>>

(* using-pg.js *)

\* client.query("SELECT id, fname, lname FROM students")
PgSelectStudents ==
    Rows(Project(students, {"id", "fname", "lname"}))

\* client.query("SELECT fname, lname FROM students WHERE id=$1", [id])
PgSelectStudent(id) ==
    LET n == ParseInt4(id) IN
    IF ~n.ok THEN QueryError
    ELSE Rows(Project(Where(students, "id", n.val), {"fname", "lname"}))

\* the assignments query without its WHERE clause
PgSelectAssignmentsAll(id) ==
    LET n == ParseInt4(id) IN
    IF ~n.ok THEN QueryError
    ELSE Rows(Project(assignments, {"title", "grade"}))

\* client.query("SELECT title, grade FROM assignments WHERE student_id=$1", [id])
PgSelectAssignments(id) ==
    LET n == ParseInt4(id) IN
    IF ~n.ok THEN QueryError
    ELSE Rows(Project(Where(assignments, "student_id", n.val),
                      {"title", "grade"}))

\* rez.rows[0]
FirstRow(rows) == IF rows = <<>> THEN Undefined ELSE rows[1]

(* using-knex.js *)

\* the list query cut to its first row
KnexSelectStudentsFirst ==
    Rows(Limit1(Project(students, {"id", "fname", "lname"})))

\* knex.select('id', 'fname', 'lname').from('students')
KnexSelectStudents ==
    Rows(Project(students, {"id", "fname", "lname"}))

\* knex.first('fname', 'lname').from('students').where('id', id)
KnexFirstStudent(id) ==
    LET n == ParseInt4(id) IN
    IF ~n.ok THEN QueryError
    ELSE Rows(Limit1(Project(Where(students, "id", n.val),
                             {"fname", "lname"})))

\* knex.select('title', 'grade').from('assignments').where('student_id', id)
KnexSelectAssignments(id) ==
    LET n == ParseInt4(id) IN
    IF ~n.ok THEN QueryError
    ELSE Rows(Project(Where(assignments, "student_id", n.val),
                      {"title", "grade"}))

(* using-sequelize.js *)

\* getterMethods: fullName() { return this.fname + " " + this.lname }
fullName(this) == this.fname \o " " \o this.lname

\* an instance of the model Student: the default id, fname, lname, fullName
RECURSIVE StudentInstances(_)
StudentInstances(rows) ==
    IF rows = <<>> THEN <<>>
    ELSE <<[id |-> Head(rows).id, fname |-> Head(rows).fname,
            lname |-> Head(rows).lname, fullName |-> fullName(Head(rows))]>>
         \o StudentInstances(Tail(rows))

\* an instance of the model Assignment: the default id, title, grade and the
\* student_id that Student.hasMany(Assignment) adds
AssignmentInstances(rows) ==
    Project(rows, {"id", "title", "grade", "student_id"})

\* Student.findAll()
SequelizeFindAll == Rows(StudentInstances(students))

\* Student.findById(id)
SequelizeFindById(id) ==
    LET n == ParseInt4(id) IN
    IF ~n.ok THEN QueryError
    ELSE Rows(Limit1(StudentInstances(Where(students, "id", n.val))))

\* student.getAssignments(): the assignments whose student_id is student.id
SequelizeGetAssignments(this) ==
    Rows(AssignmentInstances(Where(assignments, "student_id", this.id)))

(* ------------------------------ requests ------------------------------ *)

Variants == {"pg", "knex", "sequelize"}

NoPath == [route |-> "none", id |-> <<>>]
IndexPath == [route |-> "/", id |-> <<>>]
StudentPath(id) == [route |-> "/student/:id", id |-> id]

\* what res.render was called with; a request that has rendered nothing
NotRendered == [status |-> 0]
IndexView(studs) ==
    [status |-> 200, template |-> "index.html",
     context |-> [students |-> studs]]
\* a detail view built on a list kept across requests: the assignments of
\* an earlier detail view come before the request's own
StudentViewAccumulating(stud, assigns) ==
    LET prior == { q \in Reqs : pc[q] = "rendered"
                                /\ path[q].route = "/student/:id" }
        kept == IF prior = {} THEN <<>>
                ELSE rendered[CHOOSE q \in prior : TRUE].context.assignments
    IN  [status |-> 200, template |-> "student.html",
         context |-> [student |-> stud, assignments |-> kept \o assigns]]

StudentView(stud, assigns) ==
    [status |-> 200, template |-> "student.html",
     context |-> [student |-> stud, assignments |-> assigns]]

\* an id kept in one place for all requests: the id of the latest arrival
SharedId(r) ==
    LET latest == CHOOSE q \in Reqs :
                      /\ path[q].route = "/student/:id"
                      /\ \A q2 \in Reqs :
                            path[q2].route = "/student/:id" => q2 <= q
    IN  path[latest].id

\* const id = req.params.id
ReqParamsId(r) == path[r].id

\* requests are numbered in their order of arrival
Arrives(r) == pc[r] = "idle" /\ \A q \in Reqs : q < r => pc[q] # "idle"

Awaiting(r) == pc[r] \in {"students", "student", "assignments"}

\* the pg client runs the queries of its queue one at a time, in order;
\* knex and Sequelize draw connections from a pool
Active(r) ==
    /\ Awaiting(r)
    /\ variant = "pg" => (queryQueue # <<>> /\ Head(queryQueue) = r)

\* a server process started on one of the given table contents, with n
\* requests to come
Start(n, stores) ==
    /\ variant \in Variants
    /\ \E store \in stores :
          /\ students = store.students
          /\ assignments = store.assignments
    /\ pc = [r \in 1..n |-> "idle"]
    /\ path = [r \in 1..n |-> NoPath]
    /\ student = [r \in 1..n |-> Undefined]
    /\ rendered = [r \in 1..n |-> NotRendered]
    /\ error = [r \in 1..n |-> "none"]
    /\ issued = [r \in 1..n |-> <<>>]
    /\ queryQueue = <<>>

Init == Start(MaxReqs, StoreContents)

\* the tables as database.sql leaves them
SeedStore == [students |-> SeedStudents, assignments |-> SeedAssignments]

\* a longer run, on the seeded tables
RepeatInit == Start(MaxRepeat, {SeedStore})

\* the async function's promise rejects: nothing is rendered
Reject(r, why) ==
    /\ pc' = [pc EXCEPT ![r] = "rejected"]
    /\ error' = [error EXCEPT ![r] = why]
    /\ UNCHANGED <<student, rendered, issued>>

(* using-pg.js *)

\* app.get('/'): up to the await of client.query
PgIndex(r) ==
    /\ variant = "pg" /\ Arrives(r)
    /\ path' = [path EXCEPT ![r] = IndexPath]
    /\ pc' = [pc EXCEPT ![r] = "students"]
    /\ issued' = [issued EXCEPT ![r] = <<"students">>]
    /\ queryQueue' = Append(queryQueue, r)
    /\ UNCHANGED <<variant, students, assignments, student, rendered, error>>

\* app.get('/'): from the await to res.render('index.html', {students})
PgIndexResume(r) ==
    /\ variant = "pg" /\ pc[r] = "students" /\ Active(r)
    /\ LET rez == PgSelectStudents IN
       /\ rendered' = [rendered EXCEPT ![r] = IndexView(rez.rows)]
       /\ pc' = [pc EXCEPT ![r] = "rendered"]
    /\ queryQueue' = Tail(queryQueue)
    /\ UNCHANGED <<variant, students, assignments, path, student, error,
                   issued>>

\* app.get('/student/:id'): up to the first await
PgStudent(r, id) ==
    /\ variant = "pg" /\ Arrives(r)
    /\ path' = [path EXCEPT ![r] = StudentPath(id)]
    /\ pc' = [pc EXCEPT ![r] = "student"]
    /\ issued' = [issued EXCEPT ![r] = <<"student">>]
    /\ queryQueue' = Append(queryQueue, r)
    /\ UNCHANGED <<variant, students, assignments, student, rendered, error>>

\* app.get('/student/:id'): from the first await to the second
PgStudentResume(r) ==
    /\ variant = "pg" /\ pc[r] = "student" /\ Active(r)
    /\ LET rez == PgSelectStudent(ReqParamsId(r)) IN
       IF rez.err # "none"
       THEN /\ Reject(r, rez.err)
            /\ queryQueue' = Tail(queryQueue)
       ELSE /\ student' = [student EXCEPT ![r] = FirstRow(rez.rows)]
            /\ pc' = [pc EXCEPT ![r] = "assignments"]
            /\ issued' = [issued EXCEPT ![r] = Append(@, "assignments")]
            /\ queryQueue' = Append(Tail(queryQueue), r)
            /\ UNCHANGED <<rendered, error>>
    /\ UNCHANGED <<variant, students, assignments, path>>

\* the second step with a statement that deletes the rows it returns
PgAssignmentsResumeDeleting(r) ==
    /\ variant = "pg" /\ pc[r] = "assignments" /\ Active(r)
    /\ LET rez2 == PgSelectAssignments(ReqParamsId(r)) IN
       IF rez2.err # "none"
       THEN Reject(r, rez2.err) /\ UNCHANGED assignments
       ELSE /\ rendered' = [rendered EXCEPT ![r] =
                               StudentView(student[r], rez2.rows)]
            /\ pc' = [pc EXCEPT ![r] = "rendered"]
            /\ assignments' = Keep(assignments, "student_id",
                                   {1, 2} \ {ParseInt4(ReqParamsId(r)).val})
            /\ UNCHANGED <<student, error, issued>>
    /\ queryQueue' = Tail(queryQueue)
    /\ UNCHANGED <<variant, students, path>>

\* app.get('/student/:id'): from the second await to res.render
PgAssignmentsResume(r) ==
    /\ variant = "pg" /\ pc[r] = "assignments" /\ Active(r)
    /\ LET rez2 == PgSelectAssignments(ReqParamsId(r)) IN
       IF rez2.err # "none"
       THEN Reject(r, rez2.err)
       ELSE /\ rendered' = [rendered EXCEPT ![r] =
                               StudentView(student[r], rez2.rows)]
            /\ pc' = [pc EXCEPT ![r] = "rendered"]
            /\ UNCHANGED <<student, error, issued>>
    /\ queryQueue' = Tail(queryQueue)
    /\ UNCHANGED <<variant, students, assignments, path>>

(* using-knex.js *)

\* app.get('/'): up to the await of the select
KnexIndex(r) ==
    /\ variant = "knex" /\ Arrives(r)
    /\ path' = [path EXCEPT ![r] = IndexPath]
    /\ pc' = [pc EXCEPT ![r] = "students"]
    /\ issued' = [issued EXCEPT ![r] = <<"students">>]
    /\ UNCHANGED <<variant, students, assignments, student, rendered, error,
                   queryQueue>>

\* app.get('/'): from the await to res.render('index.html', {students})
KnexIndexResume(r) ==
    /\ variant = "knex" /\ pc[r] = "students" /\ Active(r)
    /\ LET rez == KnexSelectStudents IN
       /\ rendered' = [rendered EXCEPT ![r] = IndexView(rez.rows)]
       /\ pc' = [pc EXCEPT ![r] = "rendered"]
    /\ UNCHANGED <<variant, students, assignments, path, student, error,
                   issued, queryQueue>>

\* the first step issuing both queries at once, neither awaited first
KnexStudentBothAtOnce(r, id) ==
    /\ variant = "knex" /\ Arrives(r)
    /\ path' = [path EXCEPT ![r] = StudentPath(id)]
    /\ pc' = [pc EXCEPT ![r] = "student"]
    /\ issued' = [issued EXCEPT ![r] = <<"student", "assignments">>]
    /\ UNCHANGED <<variant, students, assignments, student, rendered, error,
                   queryQueue>>

\* app.get('/student/:id'): up to the first await
KnexStudent(r, id) ==
    /\ variant = "knex" /\ Arrives(r)
    /\ path' = [path EXCEPT ![r] = StudentPath(id)]
    /\ pc' = [pc EXCEPT ![r] = "student"]
    /\ issued' = [issued EXCEPT ![r] = <<"student">>]
    /\ UNCHANGED <<variant, students, assignments, student, rendered, error,
                   queryQueue>>

\* app.get('/student/:id'): from the first await to the second
KnexStudentResume(r) ==
    /\ variant = "knex" /\ pc[r] = "student" /\ Active(r)
    /\ LET rez == KnexFirstStudent(ReqParamsId(r)) IN
       IF rez.err # "none"
       THEN Reject(r, rez.err)
       ELSE /\ student' = [student EXCEPT ![r] = FirstRow(rez.rows)]
            /\ pc' = [pc EXCEPT ![r] = "assignments"]
            /\ issued' = [issued EXCEPT ![r] = Append(@, "assignments")]
            /\ UNCHANGED <<rendered, error>>
    /\ UNCHANGED <<variant, students, assignments, path, queryQueue>>

\* app.get('/student/:id'): from the second await to res.render
KnexAssignmentsResume(r) ==
    /\ variant = "knex" /\ pc[r] = "assignments" /\ Active(r)
    /\ LET rez2 == KnexSelectAssignments(ReqParamsId(r)) IN
       IF rez2.err # "none"
       THEN Reject(r, rez2.err)
       ELSE /\ rendered' = [rendered EXCEPT ![r] =
                               StudentView(student[r], rez2.rows)]
            /\ pc' = [pc EXCEPT ![r] = "rendered"]
            /\ UNCHANGED <<student, error, issued>>
    /\ UNCHANGED <<variant, students, assignments, path, queryQueue>>

(* using-sequelize.js *)

\* app.get('/'): up to the await of Student.findAll()
SequelizeIndex(r) ==
    /\ variant = "sequelize" /\ Arrives(r)
    /\ path' = [path EXCEPT ![r] = IndexPath]
    /\ pc' = [pc EXCEPT ![r] = "students"]
    /\ issued' = [issued EXCEPT ![r] = <<"students">>]
    /\ UNCHANGED <<variant, students, assignments, student, rendered, error,
                   queryQueue>>

\* app.get('/'): from the await to res.render('index.html', {students})
SequelizeIndexResume(r) ==
    /\ variant = "sequelize" /\ pc[r] = "students" /\ Active(r)
    /\ LET rez == SequelizeFindAll IN
       /\ rendered' = [rendered EXCEPT ![r] = IndexView(rez.rows)]
       /\ pc' = [pc EXCEPT ![r] = "rendered"]
    /\ UNCHANGED <<variant, students, assignments, path, student, error,
                   issued, queryQueue>>

\* app.get('/student/:id'): up to the await of Student.findById(id)
SequelizeStudent(r, id) ==
    /\ variant = "sequelize" /\ Arrives(r)
    /\ path' = [path EXCEPT ![r] = StudentPath(id)]
    /\ pc' = [pc EXCEPT ![r] = "student"]
    /\ issued' = [issued EXCEPT ![r] = <<"student">>]
    /\ UNCHANGED <<variant, students, assignments, student, rendered, error,
                   queryQueue>>

\* app.get('/student/:id'): from the first await, through
\* console.log("Full name is", student.fullName), to the second await;
\* reading fullName of null throws a TypeError
SequelizeStudentResume(r) ==
    /\ variant = "sequelize" /\ pc[r] = "student" /\ Active(r)
    /\ LET rez == SequelizeFindById(ReqParamsId(r))
           found == IF rez.rows = <<>> THEN Null ELSE rez.rows[1]
       IN
       IF rez.err # "none"
       THEN Reject(r, rez.err)
       ELSE IF found = Null
       THEN /\ student' = [student EXCEPT ![r] = found]
            /\ pc' = [pc EXCEPT ![r] = "rejected"]
            /\ error' = [error EXCEPT ![r] = "TypeError"]
            /\ UNCHANGED <<rendered, issued>>
       ELSE /\ student' = [student EXCEPT ![r] = found]
            /\ pc' = [pc EXCEPT ![r] = "assignments"]
            /\ issued' = [issued EXCEPT ![r] = Append(@, "assignments")]
            /\ UNCHANGED <<rendered, error>>
    /\ UNCHANGED <<variant, students, assignments, path, queryQueue>>

\* app.get('/student/:id'): from the await of student.getAssignments() to
\* res.render('student.html', {student, assignments})
SequelizeAssignmentsResume(r) ==
    /\ variant = "sequelize" /\ pc[r] = "assignments" /\ Active(r)
    /\ LET rez2 == SequelizeGetAssignments(student[r]) IN
       /\ rendered' = [rendered EXCEPT ![r] =
                          StudentView(student[r], rez2.rows)]
       /\ pc' = [pc EXCEPT ![r] = "rendered"]
    /\ UNCHANGED <<variant, students, assignments, path, student, error,
                   issued, queryQueue>>

(* all three *)

\* a failed store call that is issued once more instead of rejecting
StoreUnreachableRetries(r) ==
    /\ Active(r) /\ Len(issued[r]) < 3
    /\ issued' = [issued EXCEPT ![r] = Append(@, @[Len(@)])]
    /\ queryQueue' = IF variant = "pg" THEN Append(Tail(queryQueue), r)
                     ELSE queryQueue
    /\ UNCHANGED <<variant, students, assignments, path, pc, student,
                   rendered, error>>

\* an awaited store call rejects because the store cannot be reached: the
\* await throws, no handler catches it, the async function's promise rejects
StoreUnreachable(r) ==
    /\ Active(r)
    /\ Reject(r, "StoreUnreachable")
    /\ queryQueue' = IF variant = "pg" THEN Tail(queryQueue) ELSE queryQueue
    /\ UNCHANGED <<variant, students, assignments, path>>

Next ==
    \/ \E r \in Reqs : PgIndex(r)
    \/ \E r \in Reqs : PgIndexResume(r)
    \/ \E r \in Reqs, id \in IdTexts : PgStudent(r, id)
    \/ \E r \in Reqs : PgStudentResume(r)
    \/ \E r \in Reqs : PgAssignmentsResume(r)
    \/ \E r \in Reqs : KnexIndex(r)
    \/ \E r \in Reqs : KnexIndexResume(r)
    \/ \E r \in Reqs, id \in IdTexts : KnexStudent(r, id)
    \/ \E r \in Reqs : KnexStudentResume(r)
    \/ \E r \in Reqs : KnexAssignmentsResume(r)
    \/ \E r \in Reqs : SequelizeIndex(r)
    \/ \E r \in Reqs : SequelizeIndexResume(r)
    \/ \E r \in Reqs, id \in IdTexts : SequelizeStudent(r, id)
    \/ \E r \in Reqs : SequelizeStudentResume(r)
    \/ \E r \in Reqs : SequelizeAssignmentsResume(r)
    \/ \E r \in Reqs : StoreUnreachable(r)

Spec == Init /\ [][Next]_vars

RepeatSpec == RepeatInit /\ [][Next]_vars

(* ------------------- what the properties speak about ------------------- *)

Detail(r) == path[r].route = "/student/:id"
Index(r) == path[r].route = "/"
Settled(r) == pc[r] \in {"rendered", "rejected"}
Rendered(r) == pc[r] = "rendered"

\* the requested id as the store reads it
Requested(r) == ParseInt4(path[r].id)

\* a request none of whose store calls was cut off by an unreachable store
StoreReachable(r) == error[r] # "StoreUnreachable"

Outcome(r) == [pc |-> pc[r], error |-> error[r], rendered |-> rendered[r]]

Rejection(why) == [pc |-> "rejected", error |-> why, rendered |-> NotRendered]
Response(view) == [pc |-> "rendered", error |-> "none", rendered |-> view]

\* the outcome of one request served alone by variant v, the store reachable:
\* the handler's statements run in sequence
Alone(v, p) ==
    IF p.route = "/"
    THEN Response(IndexView((CASE v = "pg" -> PgSelectStudents
                               [] v = "knex" -> KnexSelectStudents
                               [] OTHER -> SequelizeFindAll).rows))
    ELSE LET rez == CASE v = "pg" -> PgSelectStudent(p.id)
                      [] v = "knex" -> KnexFirstStudent(p.id)
                      [] OTHER -> SequelizeFindById(p.id)
         IN  IF rez.err # "none" THEN Rejection(rez.err)
             ELSE IF v = "sequelize" /\ rez.rows = <<>>
             THEN Rejection("TypeError")
             ELSE LET rez2 == CASE v = "pg" -> PgSelectAssignments(p.id)
                                [] v = "knex" -> KnexSelectAssignments(p.id)
                                [] OTHER -> SequelizeGetAssignments(rez.rows[1])
                  IN  IF rez2.err # "none" THEN Rejection(rez2.err)
                      ELSE Response(StudentView(FirstRow(rez.rows), rez2.rows))

(* ------------------------------ properties ----------------------------- *)

\* C1: in each of the three variants, a GET /student/:id whose id is an
\* integer that matches no student row, the store being reachable, ends in
\* res.render with an absent student and no assignments, status 200.
\* (using-sequelize.js reads student.fullName of null and never renders.)
C1_MissingStudentRenders ==
    \A r \in Reqs :
        (/\ Detail(r) /\ Settled(r) /\ StoreReachable(r)
         /\ Requested(r).ok
         /\ Requested(r).val \notin StudentIds(students))
        => /\ Rendered(r)
           /\ rendered[r].status = 200
           /\ ~Present(rendered[r].context.student)
           /\ rendered[r].context.assignments = <<>>

\* C2: whatever a variant hands to a view, the other two variants hand the
\* same records, with the same fields, for the same path and store content.
\* (Sequelize instances carry id and fullName, id and student_id, which the
\* rows of the pg and knex queries lack.)
C2_VariantsHandSameRecords ==
    \A r \in Reqs :
        Rendered(r) =>
            \A v \in Variants : Alone(v, path[r]).rendered = rendered[r]

\* C3: the assignments of a rendered detail view are the rows of the
\* assignments table whose student_id is the requested id, each once, and
\* no other row.
C3_AssignmentsOfRequestedStudent ==
    \A r \in Reqs :
        (Detail(r) /\ Rendered(r)) =>
            LET shown == rendered[r].context.assignments
                owned == { i \in DOMAIN assignments :
                             /\ Requested(r).ok
                             /\ assignments[i].student_id = Requested(r).val }
            IN  /\ Len(shown) = Cardinality(owned)
                /\ \E f \in [DOMAIN shown -> owned] :
                      /\ \A j, k \in DOMAIN shown : f[j] = f[k] => j = k
                      /\ \A k \in DOMAIN shown :
                            \A c \in DOMAIN shown[k] :
                                shown[k][c] = assignments[f[k]][c]

\* a detail view that lists assignments while the table also holds
\* assignments of another student
C3_Witness ==
    \E r \in Reqs :
        /\ Detail(r) /\ Rendered(r)
        /\ Len(rendered[r].context.assignments) = 2
        /\ \E i \in DOMAIN assignments :
              assignments[i].student_id # Requested(r).val

\* the characters an integer literal may be written with, in any version of
\* the store: digits, white space, a sign, and the letters and underscore of
\* the hexadecimal, octal and binary forms
IntegerChar(c) ==
    \/ IsDigit(c)
    \/ IsSpace(c)
    \/ c \in {"+", "-", "_", "x", "X", "o", "O", "b", "B",
              "a", "c", "d", "e", "f", "A", "C", "D", "E", "F"}

\* an id with a character that no integer literal has (as the 'R' and the
\* '=' of '1 OR 1=1'); white space around digits does not make it so
NonNumeric(id) == \E i \in DOMAIN id : ~IntegerChar(id[i])

\* C4 as stated: a request whose id is non-numeric (as '1 OR 1=1') is
\* answered with an absent student and no assignments, and never ends in a
\* query error.
C4_MalformedIdRendersEmpty ==
    \A r \in Reqs :
        (Detail(r) /\ NonNumeric(path[r].id)) =>
            /\ error[r] # "QueryError"
            /\ (Settled(r) /\ StoreReachable(r)) =>
                  /\ Rendered(r)
                  /\ ~Present(rendered[r].context.student)
                  /\ rendered[r].context.assignments = <<>>

\* C4, amended: a request whose id is non-numeric (as '1 OR 1=1')
\* renders no view, so it shows no student and no assignment of anyone; its
\* student lookup is rejected by the store, the request ends in that query
\* error (or in the store being unreachable), and the assignments query is
\* never issued.
C4_MalformedIdIsRejected ==
    \A r \in Reqs :
        (Detail(r) /\ NonNumeric(path[r].id)) =>
            /\ rendered[r] = NotRendered
            /\ issued[r] = <<"student">>
            /\ Settled(r) =>
                  pc[r] = "rejected"
                  /\ error[r] \in {"QueryError", "StoreUnreachable"}

\* the request /student/1%20OR%201=1 ended in the store's query error
C4_Witness ==
    \E r \in Reqs :
        /\ Detail(r)
        /\ path[r].id = <<"1", " ", "O", "R", " ", "1", "=", "1">>
        /\ pc[r] = "rejected" /\ error[r] = "QueryError"
        /\ assignments # <<>>

\* C5: no step of any handler changes the students or the assignments table,
\* and every assignment's student_id names a student of the students table
\* throughout.
C5_TablesUnchanged ==
    /\ [](ForeignKeyOk(students, assignments))
    /\ [][students' = students /\ assignments' = assignments]_vars

\* both routes have been served from a store that holds both kinds of rows
C5_Witness ==
    /\ students # <<>> /\ assignments # <<>>
    /\ \E r, q \in Reqs :
          /\ Index(r) /\ Rendered(r)
          /\ Detail(q) /\ Rendered(q)
          /\ rendered[q].context.assignments # <<>>

\* C6: the students of a rendered list view are the rows of the students
\* table: every row appears exactly once with its id, fname and lname, and
\* nothing else appears.
C6_ListShowsEveryStudentOnce ==
    \A r \in Reqs :
        (Index(r) /\ Rendered(r)) =>
            LET shown == rendered[r].context.students IN
            /\ Len(shown) = Len(students)
            /\ \A k \in DOMAIN shown :
                  {"id", "fname", "lname"} \subseteq DOMAIN shown[k]
            /\ \A i \in DOMAIN students :
                  Cardinality({ k \in DOMAIN shown :
                                  /\ shown[k].id = students[i].id
                                  /\ shown[k].fname = students[i].fname
                                  /\ shown[k].lname = students[i].lname }) = 1

\* a list view of a table of two students
C6_Witness ==
    \E r \in Reqs :
        /\ Index(r) /\ Rendered(r)
        /\ Len(students) = 2
        /\ Len(rendered[r].context.students) = 2

\* C7: two requests for the same path that the store did not fail end the
\* same way and render the same view, whatever was served before or between
\* them: the outcome depends on the path and the tables only.
C7_SameRequestSameResponse ==
    \A r, q \in Reqs :
        (/\ path[r] = path[q]
         /\ Settled(r) /\ Settled(q)
         /\ StoreReachable(r) /\ StoreReachable(q))
        => Outcome(r) = Outcome(q)

\* the same detail page of a student with assignments, rendered for the
\* first and for the third request, another page rendered for the request
\* that arrived in between
C7_Witness ==
    \E r, p, q \in Reqs :
        /\ r < p /\ p < q
        /\ path[r] = path[q] /\ path[p] # path[r]
        /\ Detail(r) /\ Rendered(r) /\ Rendered(p) /\ Rendered(q)
        /\ rendered[r].context.assignments # <<>>

\* C8: a request whose store call fails (store unreachable, or the query
\* rejected) is rejected at that call: nothing is rendered for it, then or
\* later, the failed call is not issued again and no further call is issued.
C8_FailedCallFailsRequest ==
    /\ [](\A r \in Reqs :
            /\ error[r] \in {"StoreUnreachable", "QueryError"} =>
                  pc[r] = "rejected" /\ rendered[r] = NotRendered
            /\ issued[r] \in {<<>>, <<"students">>, <<"student">>,
                              <<"student", "assignments">>})
    /\ [][\A r \in Reqs :
            pc[r] = "rejected" =>
                /\ pc'[r] = "rejected"
                /\ error'[r] = error[r]
                /\ issued'[r] = issued[r]
                /\ rendered'[r] = NotRendered]_vars

\* a request whose second store call failed, beside one still being served
C8_Witness ==
    \E r, q \in Reqs :
        /\ error[r] = "StoreUnreachable"
        /\ issued[r] = <<"student", "assignments">>
        /\ Awaiting(q)

\* C9: whatever other requests are in flight, a request that the store did
\* not fail ends as it would alone: same outcome, same view, made of its own
\* id and its own query results.
C9_AsIfAlone ==
    \A r \in Reqs :
        (Settled(r) /\ StoreReachable(r)) =>
            Outcome(r) = Alone(variant, path[r])

\* a later request for another page has been rendered while an earlier
\* request is still suspended at a store call
C9_Witness ==
    \E r, q \in Reqs :
        /\ r < q /\ path[r] # path[q]
        /\ Detail(r) /\ Awaiting(r)
        /\ Detail(q) /\ Rendered(q)

\* C10: a request that is past all its store calls, none of which failed,
\* has its response.  (using-sequelize.js: findById completes with null and
\* the handler throws before it renders.)
C10_CompletedCallsGiveResponse ==
    \A r \in Reqs :
        (/\ pc[r] # "idle" /\ ~Awaiting(r)
         /\ error[r] \notin {"StoreUnreachable", "QueryError"})
        => rendered[r].status = 200

\* C11: within one GET /student/:id request the student lookup is issued
\* first; the assignments query is issued only in the step that resumes from
\* the completed student lookup; the detail view is rendered at most once,
\* only in the step that resumes from the completed assignments query, with
\* the student that this request's lookup returned; and whenever that second
\* call completes, the view is rendered in that very step, so a request both
\* of whose calls completed has rendered exactly once.
C11_StepsInOrder ==
    /\ [](\A r \in Reqs :
            /\ Rendered(r) <=> rendered[r] # NotRendered
            /\ Detail(r) =>
                  /\ issued[r] \in {<<"student">>, <<"student", "assignments">>}
                  /\ pc[r] = "student" => issued[r] = <<"student">>
                  /\ pc[r] \in {"assignments", "rendered"} =>
                        issued[r] = <<"student", "assignments">>)
    /\ [][\A r \in Reqs :
            /\ (issued[r] # <<>> /\ issued'[r] # issued[r]) =>
                  /\ Detail(r) /\ pc[r] = "student" /\ Active(r)
                  /\ issued'[r] = <<"student", "assignments">>
                  /\ pc'[r] = "assignments"
            /\ (Detail(r) /\ rendered'[r] # rendered[r]) =>
                  /\ rendered[r] = NotRendered
                  /\ pc[r] = "assignments" /\ Active(r)
                  /\ pc'[r] = "rendered"
                  /\ rendered'[r].template = "student.html"
                  /\ rendered'[r].context.student = student[r]
            /\ (Detail(r) /\ pc[r] = "assignments" /\ pc'[r] # pc[r]) =>
                  \/ pc'[r] = "rendered" /\ rendered'[r] # NotRendered
                  \/ /\ pc'[r] = "rejected"
                     /\ error'[r] \in {"StoreUnreachable", "QueryError"}
            /\ Rendered(r) =>
                  /\ pc'[r] = pc[r]
                  /\ rendered'[r] = rendered[r]
                  /\ issued'[r] = issued[r]]_vars

\* a detail view of a student with assignments has been rendered after both
\* calls, while another detail request is between its two calls
C11_Witness ==
    \E r, q \in Reqs :
        /\ Detail(r) /\ Rendered(r)
        /\ Present(rendered[r].context.student)
        /\ rendered[r].context.assignments # <<>>
        /\ Detail(q) /\ pc[q] = "assignments"

\* C12: a detail view rendered with an absent student lists no assignment,
\* and a detail view that lists assignments shows with them the student of
\* the requested id, who owns every one of them.
C12_NoAssignmentsWithoutStudent ==
    \A r \in Reqs :
        (Detail(r) /\ Rendered(r)) =>
            LET shown == rendered[r].context IN
            /\ ~Present(shown.student) => shown.assignments = <<>>
            /\ shown.assignments # <<>> =>
                  /\ Present(shown.student)
                  /\ \E i \in DOMAIN students :
                        /\ students[i].id = Requested(r).val
                        /\ students[i].fname = shown.student.fname
                        /\ students[i].lname = shown.student.lname
                  /\ \A i \in DOMAIN assignments :
                        (\E k \in DOMAIN shown.assignments :
                            /\ shown.assignments[k].title = assignments[i].title
                            /\ shown.assignments[k].grade = assignments[i].grade)
                        => assignments[i].student_id = Requested(r).val

\* a detail view rendered with an absent student while the tables hold
\* students and assignments
C12_Witness ==
    \E r \in Reqs :
        /\ Detail(r) /\ Rendered(r)
        /\ ~Present(rendered[r].context.student)
        /\ rendered[r].context.assignments = <<>>
        /\ students # <<>> /\ assignments # <<>>

====
